---- MODULE Spec2Model ----
(***************************************************************************)
(* The wasm VM API service (vms/wasmvm/service.go): NewKey, Invoke,        *)
(* CreateContract and GetTx, the helpers they call (toFnArg, validate,     *)
(* getByteArgs) and the shared state they touch (vm.mempool, the           *)
(* block-ready notification, vm.DB).                                       *)
(*                                                                         *)
(* Go values of type interface{} are records [t |-> <dynamic type>,        *)
(* v |-> <value>].  Strings that the code inspects character by character  *)
(* (type tags, CB58 text) are sequences of one-character strings.  Errors  *)
(* are sequences of message strings, outermost wrapper first; the empty    *)
(* sequence is the nil error.                                              *)
(***************************************************************************)
EXTENDS Integers, Sequences, FiniteSets, TLC

\* ------------------------------------------------------------- bounds
NumReq == 2         \* request threads
MaxTx == 2          \* transactions the builder hands out in one run
MaxNonce == 1       \* senderNonce ranges over 0..MaxNonce
MaxArgs == 2        \* longest args list of an Invoke request
MaxStrLen == 3      \* longest byteArgs string
MaxJsonLen == 2     \* longest byteArgs JSON array
Bits32 == 4         \* width standing for int32
Bits64 == 8         \* width standing for int64
ChecksumLen == 1    \* bytes of checksum closing a CB58 payload
FnArgCalls == 2     \* times toFnArg is applied to one argument

Req == 1..NumReq
Nonces == 0..MaxNonce
TxIDs == 1..(MaxTx + 1)

NoErr == <<>>
NilBytes == [nil |-> TRUE, b |-> <<>>]      \* a nil []byte
Bytes(b) == [nil |-> FALSE, b |-> b]        \* a non-nil []byte, possibly empty
NilValue == [t |-> "nil", v |-> 0]          \* a nil interface{}

RECURSIVE Pow2(_)
Pow2(n) == IF n = 0 THEN 1 ELSE 2 * Pow2(n - 1)

\* Go's conversion of an integer to a signed integer of w bits: the low w bits,
\* read as two's complement.
ToSigned(n, w) ==
    LET m == n % Pow2(w)
    IN  IF m >= Pow2(w - 1) THEN m - Pow2(w) ELSE m

\* A float is [neg, whole, half]: the number +-(whole + half/2).  Go's conversion
\* of a float to an integer drops the fraction (toward zero).
Float(neg, whole, half) == [neg |-> neg, whole |-> whole, half |-> half]
Truncate(f) == IF f.neg THEN -f.whole ELSE f.whole

\* strings.ToLower on the letters type tags are written with.
LowerOf ==
    [c \in {"I", "N", "T", "B", "O", "L"} |->
        CASE c = "I" -> "i" [] c = "N" -> "n" [] c = "T" -> "t"
          [] c = "B" -> "b" [] c = "O" -> "o" [] c = "L" -> "l"]

ToLower(s) == [i \in DOMAIN s |-> IF s[i] \in DOMAIN LowerOf THEN LowerOf[s[i]] ELSE s[i]]

TagInt32 == <<"i", "n", "t", "3", "2">>
TagInt64 == <<"i", "n", "t", "6", "4">>

\* ------------------------------------------------------------ toFnArg
\* Go fixes the result of converting a float to an integer only when the
\* truncated value fits the target type; otherwise the conversion still
\* succeeds and the value is the build's choice. conv is that choice, the same
\* for the whole run: the low bits kept, the nearest bound, or the lowest value.
VARIABLE conv

ConvOutcomes == {"wrap", "saturate", "lowest"}

FloatToInt(f, w) ==
    LET n == Truncate(f)
    IN  IF -Pow2(w - 1) <= n /\ n < Pow2(w - 1) THEN n
        ELSE CASE conv = "wrap" -> ToSigned(n, w)
               [] conv = "saturate" -> (IF n < 0 THEN -Pow2(w - 1) ELSE Pow2(w - 1) - 1)
               [] OTHER -> -Pow2(w - 1)

\* toFnArg matching the tag as written, without strings.ToLower.
toFnArg_CaseSensitive(arg) ==
    LET tag == arg.Type
        val == arg.Value
    IN  IF tag = TagInt32 THEN
            CASE val.t = "int32"   -> [val |-> [t |-> "int32", v |-> val.v], err |-> NoErr]
              [] val.t = "int64"   -> [val |-> [t |-> "int32", v |-> ToSigned(val.v, Bits32)], err |-> NoErr]
              [] val.t = "float32" -> [val |-> [t |-> "int32", v |-> FloatToInt(val.v, Bits32)], err |-> NoErr]
              [] val.t = "float64" -> [val |-> [t |-> "int32", v |-> FloatToInt(val.v, Bits32)], err |-> NoErr]
              [] OTHER -> [val |-> NilValue, err |-> <<"value '%v' is not convertible to int32">>]
        ELSE IF tag = TagInt64 THEN
            CASE val.t = "int32"   -> [val |-> [t |-> "int64", v |-> val.v], err |-> NoErr]
              [] val.t = "int64"   -> [val |-> [t |-> "int64", v |-> val.v], err |-> NoErr]
              [] val.t = "float32" -> [val |-> [t |-> "int64", v |-> FloatToInt(val.v, Bits64)], err |-> NoErr]
              [] val.t = "float64" -> [val |-> [t |-> "int64", v |-> FloatToInt(val.v, Bits64)], err |-> NoErr]
              [] OTHER -> [val |-> NilValue, err |-> <<"value '%v' is not convertible to int64">>]
        ELSE [val |-> NilValue, err |-> <<"arg type must be one of: int32, int64">>]

\* toFnArg with int32(valInt64) clamping to the bounds of int32 instead of
\* keeping the low bits.
toFnArg_Saturate(arg) ==
    LET tag == ToLower(arg.Type)
        val == arg.Value
        clamp == IF val.v < -Pow2(Bits32 - 1) THEN -Pow2(Bits32 - 1)
                 ELSE IF val.v >= Pow2(Bits32 - 1) THEN Pow2(Bits32 - 1) - 1 ELSE val.v
    IN  IF tag = TagInt32 THEN
            CASE val.t = "int32"   -> [val |-> [t |-> "int32", v |-> val.v], err |-> NoErr]
              [] val.t = "int64"   -> [val |-> [t |-> "int32", v |-> clamp], err |-> NoErr]
              [] val.t = "float32" -> [val |-> [t |-> "int32", v |-> FloatToInt(val.v, Bits32)], err |-> NoErr]
              [] val.t = "float64" -> [val |-> [t |-> "int32", v |-> FloatToInt(val.v, Bits32)], err |-> NoErr]
              [] OTHER -> [val |-> NilValue, err |-> <<"value '%v' is not convertible to int32">>]
        ELSE IF tag = TagInt64 THEN
            CASE val.t = "int32"   -> [val |-> [t |-> "int64", v |-> val.v], err |-> NoErr]
              [] val.t = "int64"   -> [val |-> [t |-> "int64", v |-> val.v], err |-> NoErr]
              [] val.t = "float32" -> [val |-> [t |-> "int64", v |-> FloatToInt(val.v, Bits64)], err |-> NoErr]
              [] val.t = "float64" -> [val |-> [t |-> "int64", v |-> FloatToInt(val.v, Bits64)], err |-> NoErr]
              [] OTHER -> [val |-> NilValue, err |-> <<"value '%v' is not convertible to int64">>]
        ELSE [val |-> NilValue, err |-> <<"arg type must be one of: int32, int64">>]

\* ArgAPI.toFnArg: [val |-> the Go value returned, err |-> the error].
\* Integers narrow by dropping the high bits; a float converts by truncation.
toFnArg(arg) ==
    LET tag == ToLower(arg.Type)
        val == arg.Value
    IN  IF tag = TagInt32 THEN
            CASE val.t = "int32"   -> [val |-> [t |-> "int32", v |-> val.v], err |-> NoErr]
              [] val.t = "int64"   -> [val |-> [t |-> "int32", v |-> ToSigned(val.v, Bits32)], err |-> NoErr]
              [] val.t = "float32" -> [val |-> [t |-> "int32", v |-> FloatToInt(val.v, Bits32)], err |-> NoErr]
              [] val.t = "float64" -> [val |-> [t |-> "int32", v |-> FloatToInt(val.v, Bits32)], err |-> NoErr]
              [] OTHER -> [val |-> NilValue, err |-> <<"value '%v' is not convertible to int32">>]
        ELSE IF tag = TagInt64 THEN
            CASE val.t = "int32"   -> [val |-> [t |-> "int64", v |-> val.v], err |-> NoErr]
              [] val.t = "int64"   -> [val |-> [t |-> "int64", v |-> val.v], err |-> NoErr]
              [] val.t = "float32" -> [val |-> [t |-> "int64", v |-> FloatToInt(val.v, Bits64)], err |-> NoErr]
              [] val.t = "float64" -> [val |-> [t |-> "int64", v |-> FloatToInt(val.v, Bits64)], err |-> NoErr]
              [] OTHER -> [val |-> NilValue, err |-> <<"value '%v' is not convertible to int64">>]
        ELSE [val |-> NilValue, err |-> <<"arg type must be one of: int32, int64">>]

\* ----------------------------------------------------------- validate
idsEmpty == "11111111111111111111111111111111LpoYY"

\* validate with the nonce check off by one: a nonce of 1 is rejected too.
validate_NonceOffByOne(args) ==
    IF Len(args.SenderKey) = 0 THEN <<"argument 'senderKey' not provided">>
    ELSE IF args.SenderNonce <= 1 THEN <<"'senderNonce' must be at least 1">>
    ELSE IF args.ContractID = idsEmpty THEN <<"contractID not specified">>
    ELSE IF args.Function = "" THEN <<"function not specified">>
    ELSE NoErr

\* validate with the function case first.
validate_FunctionFirst(args) ==
    IF args.Function = "" THEN <<"function not specified">>
    ELSE IF Len(args.SenderKey) = 0 THEN <<"argument 'senderKey' not provided">>
    ELSE IF args.SenderNonce = 0 THEN <<"'senderNonce' must be at least 1">>
    ELSE IF args.ContractID = idsEmpty THEN <<"contractID not specified">>
    ELSE NoErr

\* validate without the contractID case.
validate_ContractIDUnchecked(args) ==
    IF Len(args.SenderKey) = 0 THEN <<"argument 'senderKey' not provided">>
    ELSE IF args.SenderNonce = 0 THEN <<"'senderNonce' must be at least 1">>
    ELSE IF args.Function = "" THEN <<"function not specified">>
    ELSE NoErr

\* InvokeArgs.validate: the first case of the switch that matches decides.
validate(args) ==
    IF Len(args.SenderKey) = 0 THEN <<"argument 'senderKey' not provided">>
    ELSE IF args.SenderNonce = 0 THEN <<"'senderNonce' must be at least 1">>
    ELSE IF args.ContractID = idsEmpty THEN <<"contractID not specified">>
    ELSE IF args.Function = "" THEN <<"function not specified">>
    ELSE NoErr

\* -------------------------------------------------------- encoding/json
JsonKeys == <<"a", "b">>       \* object keys, in the order Marshal sorts them

Digit == <<"0", "1", "2", "3", "4", "5", "6", "7", "8", "9">>

RECURSIVE Decimal(_)
Decimal(n) == IF n < 10 THEN <<Digit[n + 1]>> ELSE Decimal(n \div 10) \o <<Digit[(n % 10) + 1]>>

\* encjson.Marshal of a float64
MarshalNumber(f) ==
    (IF f.neg THEN <<"-">> ELSE <<>>) \o Decimal(f.whole)
        \o (IF f.half THEN <<".", "5">> ELSE <<>>)

\* encjson.Marshal: [out |-> the JSON text, ok |-> no error]. A value of a type
\* JSON cannot carry (t = "chan") makes the whole call fail.
RECURSIVE Marshal(_), MarshalElems(_, _), MarshalFields(_, _, _)
Marshal(x) ==
    CASE x.t = "nil"     -> [out |-> <<"n", "u", "l", "l">>, ok |-> TRUE]
      [] x.t = "bool"    -> [out |-> IF x.v THEN <<"t", "r", "u", "e">>
                                            ELSE <<"f", "a", "l", "s", "e">>, ok |-> TRUE]
      [] x.t = "float64" -> [out |-> MarshalNumber(x.v), ok |-> TRUE]
      [] x.t = "string"  -> [out |-> <<"\"">> \o x.v \o <<"\"">>, ok |-> TRUE]
      [] x.t = "array"   ->
            LET e == MarshalElems(x.v, 1)
            IN  [out |-> <<"[">> \o e.out \o <<"]">>, ok |-> e.ok]
      [] x.t = "object"  ->
            LET e == MarshalFields(x.v, 1, TRUE)
            IN  [out |-> <<"{">> \o e.out \o <<"}">>, ok |-> e.ok]
      [] OTHER -> [out |-> <<>>, ok |-> FALSE]

MarshalElems(s, i) ==
    IF i > Len(s) THEN [out |-> <<>>, ok |-> TRUE]
    ELSE LET h == Marshal(s[i])
             r == MarshalElems(s, i + 1)
         IN  [out |-> (IF i > 1 THEN <<",">> ELSE <<>>) \o h.out \o r.out,
              ok |-> h.ok /\ r.ok]

MarshalFields(m, k, first) ==
    IF k > Len(JsonKeys) THEN [out |-> <<>>, ok |-> TRUE]
    ELSE IF JsonKeys[k] \notin DOMAIN m THEN MarshalFields(m, k + 1, first)
    ELSE LET h == Marshal(m[JsonKeys[k]])
             r == MarshalFields(m, k + 1, FALSE)
         IN  [out |-> (IF first THEN <<>> ELSE <<",">>)
                        \o <<"\"", JsonKeys[k], "\"", ":">> \o h.out \o r.out,
              ok |-> h.ok /\ r.ok]

\* ------------------------------------------------------ formatting.CB58
\* The base58 alphabet at the model's scale: the characters that are digits and
\* the byte each stands for. Every other character is outside the alphabet.
B58Digit == [c \in {"1", "2"} |-> IF c = "1" THEN 0 ELSE 1]

RECURSIVE SumBytes(_)
SumBytes(b) == IF b = <<>> THEN 0 ELSE Head(b) + SumBytes(Tail(b))

\* The checksum CB58 appends to a payload (the tail of a hash of the payload).
Checksum(payload) == [i \in 1..ChecksumLen |-> (SumBytes(payload) + i) % 2]

\* CB58.FromString: base58-decode, then split off and verify the checksum.
CB58FromString(str) ==
    IF \E i \in DOMAIN str : str[i] \notin DOMAIN B58Digit
    THEN [bytes |-> NilBytes, err |-> <<"invalid base58 character">>]
    ELSE LET raw == [i \in DOMAIN str |-> B58Digit[str[i]]]
             n == Len(raw) - ChecksumLen
         IN  IF n < 0 THEN [bytes |-> NilBytes, err |-> <<"input string is smaller than the checksum size">>]
             ELSE IF SubSeq(raw, n + 1, Len(raw)) # Checksum(SubSeq(raw, 1, n))
             THEN [bytes |-> NilBytes, err |-> <<"invalid input checksum">>]
             ELSE [bytes |-> Bytes(SubSeq(raw, 1, n)), err |-> NoErr]

\* -------------------------------------------------------- getByteArgs
errBagByteArgs == <<"expected 'byteArgs' to be JSON or base58 formatted bytes but was neither">>

\* The text of a JSON number, over the characters byteArgs strings are made of.
IsJsonNumberText(s) ==
    /\ Len(s) >= 1
    /\ \A i \in DOMAIN s : s[i] \in {"0", "1", "2"}
    /\ (Len(s) > 1) => s[1] # "0"

\* getByteArgs taking a string that reads as JSON for JSON: its text is the result.
getByteArgs_JsonTextAsJson(byteArgs) ==
    IF byteArgs.t = "nil" THEN
        [bytes |-> Bytes(<<>>), err |-> NoErr, marshal |-> FALSE, cb58 |-> FALSE]
    ELSE IF byteArgs.t \in {"array", "object"} THEN
        LET m == Marshal(byteArgs)
        IN  IF m.ok THEN [bytes |-> Bytes(m.out), err |-> NoErr, marshal |-> TRUE, cb58 |-> FALSE]
            ELSE [bytes |-> NilBytes, err |-> errBagByteArgs, marshal |-> TRUE, cb58 |-> FALSE]
    ELSE IF byteArgs.t # "string" THEN
        [bytes |-> NilBytes, err |-> errBagByteArgs, marshal |-> FALSE, cb58 |-> FALSE]
    ELSE IF IsJsonNumberText(byteArgs.v) THEN
        [bytes |-> Bytes(byteArgs.v), err |-> NoErr, marshal |-> FALSE, cb58 |-> FALSE]
    ELSE
        LET f == CB58FromString(byteArgs.v)
        IN  IF f.err # NoErr THEN [bytes |-> NilBytes, err |-> errBagByteArgs, marshal |-> FALSE, cb58 |-> TRUE]
            ELSE [bytes |-> f.bytes, err |-> NoErr, marshal |-> FALSE, cb58 |-> TRUE]

\* getByteArgs falling back to the empty sequence for a value that is no string.
getByteArgs_DefaultEmpty(byteArgs) ==
    IF byteArgs.t = "nil" THEN
        [bytes |-> Bytes(<<>>), err |-> NoErr, marshal |-> FALSE, cb58 |-> FALSE]
    ELSE IF byteArgs.t \in {"array", "object"} THEN
        LET m == Marshal(byteArgs)
        IN  IF m.ok THEN [bytes |-> Bytes(m.out), err |-> NoErr, marshal |-> TRUE, cb58 |-> FALSE]
            ELSE [bytes |-> NilBytes, err |-> errBagByteArgs, marshal |-> TRUE, cb58 |-> FALSE]
    ELSE IF byteArgs.t # "string" THEN
        [bytes |-> Bytes(<<>>), err |-> NoErr, marshal |-> FALSE, cb58 |-> FALSE]
    ELSE
        LET f == CB58FromString(byteArgs.v)
        IN  IF f.err # NoErr THEN [bytes |-> NilBytes, err |-> errBagByteArgs, marshal |-> FALSE, cb58 |-> TRUE]
            ELSE [bytes |-> f.bytes, err |-> NoErr, marshal |-> FALSE, cb58 |-> TRUE]

\* InvokeArgs.getByteArgs, on the value of args.ByteArgs. Besides the two
\* results, the record tells which of the two codecs the call went through.
getByteArgs(byteArgs) ==
    IF byteArgs.t = "nil" THEN
        [bytes |-> Bytes(<<>>), err |-> NoErr, marshal |-> FALSE, cb58 |-> FALSE]
    ELSE IF byteArgs.t \in {"array", "object"} THEN
        LET m == Marshal(byteArgs)
        IN  IF m.ok THEN [bytes |-> Bytes(m.out), err |-> NoErr, marshal |-> TRUE, cb58 |-> FALSE]
            ELSE [bytes |-> NilBytes, err |-> errBagByteArgs, marshal |-> TRUE, cb58 |-> FALSE]
    ELSE IF byteArgs.t # "string" THEN
        [bytes |-> NilBytes, err |-> errBagByteArgs, marshal |-> FALSE, cb58 |-> FALSE]
    ELSE
        LET f == CB58FromString(byteArgs.v)
        IN  IF f.err # NoErr THEN [bytes |-> NilBytes, err |-> errBagByteArgs, marshal |-> FALSE, cb58 |-> TRUE]
            ELSE [bytes |-> f.bytes, err |-> NoErr, marshal |-> FALSE, cb58 |-> TRUE]

\* The values args.ByteArgs is drawn from.
StrChars == {"1", "2", "0", "["}
RECURSIVE SeqsUpTo(_, _)
SeqsUpTo(S, n) ==
    IF n = 0 THEN {<<>>}
    ELSE LET shorter == SeqsUpTo(S, n - 1)
         IN  shorter \cup {Append(s, x) : s \in shorter, x \in S}

JsonLeaves ==
    { [t |-> "float64", v |-> Float(FALSE, 1, TRUE)], [t |-> "bool", v |-> TRUE],
      NilValue, [t |-> "string", v |-> <<"1">>], [t |-> "chan", v |-> 0] }
JsonElems == JsonLeaves \cup {[t |-> "array", v |-> <<>>]}
JsonArrays == {[t |-> "array", v |-> s] : s \in SeqsUpTo(JsonElems, MaxJsonLen)}
JsonObjects ==
    {[t |-> "object", v |-> m] :
        m \in UNION {[K -> JsonLeaves] : K \in SUBSET {JsonKeys[i] : i \in DOMAIN JsonKeys}}}
Strings == {[t |-> "string", v |-> s] : s \in SeqsUpTo(StrChars, MaxStrLen)}
ByteArgsDom ==
    {NilValue, [t |-> "float64", v |-> Float(FALSE, 7, FALSE)], [t |-> "bool", v |-> FALSE]}
        \cup JsonArrays \cup JsonObjects \cup Strings

\* CB58.String: the text of a payload, its checksum appended.
CB58String(payload) ==
    LET raw == payload \o Checksum(payload)
    IN  [i \in DOMAIN raw |-> IF raw[i] = 0 THEN "1" ELSE "2"]

\* ------------------------------------------------------ request values
ContractIDs == {idsEmpty, "contract1"}
Functions == {"", "f"}
KeyBytes == {<<>>, <<7>>}
ContractBytes == {<<>>, <<0>>}

\* One argument that narrows, one that truncates, one with a tag outside the
\* set, one whose value is no number.
ArgDom ==
    { [Type |-> <<"I", "n", "t", "3", "2">>, Value |-> [t |-> "int64", v |-> Pow2(Bits32 - 1) + 1]],
      [Type |-> <<"i", "n", "t", "6", "4">>, Value |-> [t |-> "float64", v |-> Float(TRUE, 1, TRUE)]],
      [Type |-> <<"b", "o", "o", "l">>, Value |-> [t |-> "bool", v |-> TRUE]],
      [Type |-> <<"i", "n", "t", "3", "2">>, Value |-> [t |-> "string", v |-> <<"1">>]] }

HandlerByteArgs ==
    { NilValue,
      [t |-> "array", v |-> <<[t |-> "bool", v |-> TRUE]>>],
      [t |-> "string", v |-> CB58String(<<1>>)],
      [t |-> "bool", v |-> FALSE] }

InvokeArgsDom ==
    [ContractID : ContractIDs, Function : Functions, SenderKey : KeyBytes,
     SenderNonce : Nonces, Args : SeqsUpTo(ArgDom, MaxArgs), ByteArgs : HandlerByteArgs]

CreateContractArgsDom ==
    [Contract : ContractBytes, SenderKey : KeyBytes, SenderNonce : Nonces]

GetTxArgsDom == [ID : TxIDs]

\* The requests the concurrent runs are made of: requests that pass validation,
\* coercion and byteArgs resolution, so that the key factory and the builder
\* decide which of them reach the mempool.
ConcInvokeArgsDom ==
    {a \in InvokeArgsDom :
        /\ a.ContractID # idsEmpty /\ a.Function # "" /\ a.SenderKey # <<>>
        /\ a.SenderNonce = 1 /\ a.Args = <<>> /\ a.ByteArgs = NilValue}
ConcCreateContractArgsDom ==
    {a \in CreateContractArgsDom :
        a.Contract # <<>> /\ a.SenderKey # <<>> /\ a.SenderNonce = 1}

\* ------------------------------------------------ external collaborators
\* keyFactory.ToPrivateKey: rejects the bytes, or returns a key of some scheme.
KeyOutcomes == {"error", "other", "secp256k1r"}
\* vm.newInvokeTx / vm.newCreateContractTx: fail, or return a transaction.
BuildOutcomes == {"error", "tx"}
\* keyFactory.NewPrivateKey
NewKeyOutcomes == {"error", "key"}

NoTx == [id |-> 0]
Receipt(tx) == [id |-> tx.id]
NoReceipt == [id |-> 0]

\* vm.getTx: the receipt stored under the identifier, or an error.
getTx(db, id) ==
    IF id \in DOMAIN db THEN [tx |-> db[id], err |-> NoErr]
    ELSE [tx |-> NoReceipt, err |-> <<"not found">>]

Min(S) == CHOOSE x \in S : \A y \in S : x <= y

\* ------------------------------------------------------------- handlers
\* InvokeRun with the sender key resolved right after validation, ahead of the
\* argument loop and of getByteArgs.
InvokeRun_KeyFirst(a, key, build, newTx) ==
    LET v == validate(a)
        n == Len(a.Args)
        co == [i \in 1..n |-> toFnArg(a.Args[i])]
        bad == {i \in 1..n : co[i].err # NoErr}
        stop == IF bad = {} THEN n ELSE Min(bad)
        fn == [i \in 1..n |-> IF i <= stop THEN co[i].val ELSE NilValue]
        ba == getByteArgs(a.ByteArgs)
        coCalls == [i \in 1..stop |-> "toFnArg"]
        none == [fnArgs |-> <<>>, byteArgs |-> NilBytes, tx |-> NoTx, key |-> "none"]
    IN  IF v # NoErr THEN
            none @@ [err |-> <<"arguments failed validation: %v">> \o v,
                     calls |-> <<"validate">>]
        ELSE IF key = "error" THEN
            [err |-> <<"couldn't parse 'privateKey' to a SECP256K1R private key: %v", "key error">>,
             calls |-> <<"validate", "ToPrivateKey">>,
             fnArgs |-> <<>>, byteArgs |-> NilBytes, tx |-> NoTx, key |-> key]
        ELSE IF key # "secp256k1r" THEN
            [err |-> <<"couldn't parse 'privateKey' to a SECP256K1R private key: %v", "<nil>">>,
             calls |-> <<"validate", "ToPrivateKey">>,
             fnArgs |-> <<>>, byteArgs |-> NilBytes, tx |-> NoTx, key |-> key]
        ELSE IF bad # {} THEN
            [err |-> <<"couldn't parse arg '%+v': %s">> \o co[stop].err,
             calls |-> <<"validate", "ToPrivateKey">> \o coCalls,
             fnArgs |-> fn, byteArgs |-> NilBytes, tx |-> NoTx, key |-> key]
        ELSE IF ba.err # NoErr THEN
            [err |-> <<"couldn't parse 'byteArgs': %v">> \o ba.err,
             calls |-> <<"validate", "ToPrivateKey">> \o coCalls \o <<"getByteArgs">>,
             fnArgs |-> fn, byteArgs |-> NilBytes, tx |-> NoTx, key |-> key]
        ELSE IF build = "error" THEN
            [err |-> <<"couldn't create tx: %s", "build error">>,
             calls |-> <<"validate", "ToPrivateKey">> \o coCalls \o <<"getByteArgs", "newInvokeTx">>,
             fnArgs |-> fn, byteArgs |-> ba.bytes, tx |-> NoTx, key |-> key]
        ELSE
            [err |-> NoErr,
             calls |-> <<"validate", "ToPrivateKey">> \o coCalls \o <<"getByteArgs", "newInvokeTx">>,
             fnArgs |-> fn, byteArgs |-> ba.bytes, tx |-> newTx, key |-> key]

\* InvokeRun filling fnArgs from the last coerced argument to the first.
InvokeRun_ArgsReversed(a, key, build, newTx) ==
    LET v == validate(a)
        n == Len(a.Args)
        co == [i \in 1..n |-> toFnArg(a.Args[i])]
        bad == {i \in 1..n : co[i].err # NoErr}
        stop == IF bad = {} THEN n ELSE Min(bad)
        fn == [i \in 1..n |-> IF i <= stop THEN co[stop + 1 - i].val ELSE NilValue]
        ba == getByteArgs(a.ByteArgs)
        coCalls == [i \in 1..stop |-> "toFnArg"]
        none == [fnArgs |-> <<>>, byteArgs |-> NilBytes, tx |-> NoTx, key |-> "none"]
    IN  IF v # NoErr THEN
            none @@ [err |-> <<"arguments failed validation: %v">> \o v,
                     calls |-> <<"validate">>]
        ELSE IF bad # {} THEN
            [err |-> <<"couldn't parse arg '%+v': %s">> \o co[stop].err,
             calls |-> <<"validate">> \o coCalls,
             fnArgs |-> fn, byteArgs |-> NilBytes, tx |-> NoTx, key |-> "none"]
        ELSE IF ba.err # NoErr THEN
            [err |-> <<"couldn't parse 'byteArgs': %v">> \o ba.err,
             calls |-> <<"validate">> \o coCalls \o <<"getByteArgs">>,
             fnArgs |-> fn, byteArgs |-> NilBytes, tx |-> NoTx, key |-> "none"]
        ELSE IF key = "error" THEN
            [err |-> <<"couldn't parse 'privateKey' to a SECP256K1R private key: %v", "key error">>,
             calls |-> <<"validate">> \o coCalls \o <<"getByteArgs", "ToPrivateKey">>,
             fnArgs |-> fn, byteArgs |-> ba.bytes, tx |-> NoTx, key |-> key]
        ELSE IF key # "secp256k1r" THEN
            [err |-> <<"couldn't parse 'privateKey' to a SECP256K1R private key: %v", "<nil>">>,
             calls |-> <<"validate">> \o coCalls \o <<"getByteArgs", "ToPrivateKey">>,
             fnArgs |-> fn, byteArgs |-> ba.bytes, tx |-> NoTx, key |-> key]
        ELSE IF build = "error" THEN
            [err |-> <<"couldn't create tx: %s", "build error">>,
             calls |-> <<"validate">> \o coCalls \o <<"getByteArgs", "ToPrivateKey", "newInvokeTx">>,
             fnArgs |-> fn, byteArgs |-> ba.bytes, tx |-> NoTx, key |-> key]
        ELSE
            [err |-> NoErr,
             calls |-> <<"validate">> \o coCalls \o <<"getByteArgs", "ToPrivateKey", "newInvokeTx">>,
             fnArgs |-> fn, byteArgs |-> ba.bytes, tx |-> newTx, key |-> key]

\* Service.Invoke up to and including the build call (what runs before the
\* mempool is touched), for request a and the collaborators' answers key and
\* build: the error returned if any, the calls made in order, the locals.
InvokeRun(a, key, build, newTx) ==
    LET v == validate(a)
        n == Len(a.Args)
        co == [i \in 1..n |-> toFnArg(a.Args[i])]
        bad == {i \in 1..n : co[i].err # NoErr}
        stop == IF bad = {} THEN n ELSE Min(bad)
        fn == [i \in 1..n |-> IF i <= stop THEN co[i].val ELSE NilValue]
        ba == getByteArgs(a.ByteArgs)
        coCalls == [i \in 1..stop |-> "toFnArg"]
        none == [fnArgs |-> <<>>, byteArgs |-> NilBytes, tx |-> NoTx, key |-> "none"]
    IN  IF v # NoErr THEN
            none @@ [err |-> <<"arguments failed validation: %v">> \o v,
                     calls |-> <<"validate">>]
        ELSE IF bad # {} THEN
            [err |-> <<"couldn't parse arg '%+v': %s">> \o co[stop].err,
             calls |-> <<"validate">> \o coCalls,
             fnArgs |-> fn, byteArgs |-> NilBytes, tx |-> NoTx, key |-> "none"]
        ELSE IF ba.err # NoErr THEN
            [err |-> <<"couldn't parse 'byteArgs': %v">> \o ba.err,
             calls |-> <<"validate">> \o coCalls \o <<"getByteArgs">>,
             fnArgs |-> fn, byteArgs |-> NilBytes, tx |-> NoTx, key |-> "none"]
        ELSE IF key = "error" THEN
            [err |-> <<"couldn't parse 'privateKey' to a SECP256K1R private key: %v", "key error">>,
             calls |-> <<"validate">> \o coCalls \o <<"getByteArgs", "ToPrivateKey">>,
             fnArgs |-> fn, byteArgs |-> ba.bytes, tx |-> NoTx, key |-> key]
        ELSE IF key # "secp256k1r" THEN
            [err |-> <<"couldn't parse 'privateKey' to a SECP256K1R private key: %v", "<nil>">>,
             calls |-> <<"validate">> \o coCalls \o <<"getByteArgs", "ToPrivateKey">>,
             fnArgs |-> fn, byteArgs |-> ba.bytes, tx |-> NoTx, key |-> key]
        ELSE IF build = "error" THEN
            [err |-> <<"couldn't create tx: %s", "build error">>,
             calls |-> <<"validate">> \o coCalls \o <<"getByteArgs", "ToPrivateKey", "newInvokeTx">>,
             fnArgs |-> fn, byteArgs |-> ba.bytes, tx |-> NoTx, key |-> key]
        ELSE
            [err |-> NoErr,
             calls |-> <<"validate">> \o coCalls \o <<"getByteArgs", "ToPrivateKey", "newInvokeTx">>,
             fnArgs |-> fn, byteArgs |-> ba.bytes, tx |-> newTx, key |-> key]

\* The checks under "// validation" in CreateContract, without the contract's.
CreateContractChecks_ContractUnchecked(a) ==
    IF Len(a.SenderKey) = 0 THEN <<"argument 'senderKey' not given">>
    ELSE IF a.SenderNonce = 0 THEN <<"argument 'senderNonce' must be at least 1">>
    ELSE NoErr

\* The checks under "// validation" in CreateContract: the first that fails decides.
CreateContractChecks(a) ==
    IF Len(a.SenderKey) = 0 THEN <<"argument 'senderKey' not given">>
    ELSE IF Len(a.Contract) = 0 THEN <<"argument 'contract' not given">>
    ELSE IF a.SenderNonce = 0 THEN <<"argument 'senderNonce' must be at least 1">>
    ELSE NoErr

\* CreateContractRun without the check of the type assertion's ok: whatever
\* key the factory returned goes to the builder.
CreateContractRun_KeyTypeUnchecked(a, key, build, newTx) ==
    LET v == CreateContractChecks(a)
        none == [fnArgs |-> <<>>, byteArgs |-> NilBytes, tx |-> NoTx]
        asked == [key |-> key]
    IN  IF v # NoErr THEN
            none @@ [err |-> v, calls |-> <<>>, key |-> "none"]
        ELSE IF key = "error" THEN
            none @@ [err |-> <<"couldn't parse 'senderKey' to a SECP256K1R private key: %v", "key error">>,
                     calls |-> <<"ToPrivateKey">>] @@ asked
        ELSE IF build = "error" THEN
            none @@ [err |-> <<"couldn't create tx: %v", "build error">>,
                     calls |-> <<"ToPrivateKey", "newCreateContractTx">>] @@ asked
        ELSE
            [err |-> NoErr, calls |-> <<"ToPrivateKey", "newCreateContractTx">>,
             fnArgs |-> <<>>, byteArgs |-> NilBytes, tx |-> newTx, key |-> key]

\* Service.CreateContract up to and including the build call.
CreateContractRun(a, key, build, newTx) ==
    LET v == CreateContractChecks(a)
        none == [fnArgs |-> <<>>, byteArgs |-> NilBytes, tx |-> NoTx]
        asked == [key |-> key]
    IN  IF v # NoErr THEN
            none @@ [err |-> v, calls |-> <<>>, key |-> "none"]
        ELSE IF key = "error" THEN
            none @@ [err |-> <<"couldn't parse 'senderKey' to a SECP256K1R private key: %v", "key error">>,
                     calls |-> <<"ToPrivateKey">>] @@ asked
        ELSE IF key # "secp256k1r" THEN
            none @@ [err |-> <<"couldn't parse 'senderKey' to a SECP256K1R private key: %v", "<nil>">>,
                     calls |-> <<"ToPrivateKey">>] @@ asked
        ELSE IF build = "error" THEN
            none @@ [err |-> <<"couldn't create tx: %v", "build error">>,
                     calls |-> <<"ToPrivateKey", "newCreateContractTx">>] @@ asked
        ELSE
            [err |-> NoErr, calls |-> <<"ToPrivateKey", "newCreateContractTx">>,
             fnArgs |-> <<>>, byteArgs |-> NilBytes, tx |-> newTx, key |-> key]

\* ---------------------------------------------------------------- state
VARIABLES
    pc,         \* per request thread: "idle", "append", "store", "notify", "respond", "returned"
    kind,       \* the handler the thread runs: "Invoke", "CreateContract", "GetTx", "NewKey"
    args,       \* its request
    frame,      \* its locals: fnArgs, byteArgs, tx, the slice value append read, and
                \* what the key factory answered ("none" while it has not been asked)
    err,        \* the error it returned
    resp,       \* its response object
    calls,      \* the calls it made so far, in order
    mempool,    \* vm.mempool
    notified,   \* number of vm.NotifyBlockReady calls so far
    DB,         \* vm.DB: identifier -> receipt
    nextTx,     \* identifier of the next transaction the builder returns
    built,      \* every transaction a build call returned
    issued,     \* every identifier a handler put in a response
    baIn,       \* getByteArgs on its own: the value given ...
    baOut,      \* ... and what it returned
    faIn,       \* toFnArg on its own: the argument given ...
    faOut       \* ... and what each call on it returned, in order

threadVars == <<pc, kind, args, frame, err, resp, calls>>
sharedVars == <<mempool, notified, DB, nextTx, built, issued>>
pureVars == <<baIn, baOut, faIn, faOut, conv>>
vars == <<pc, kind, args, frame, err, resp, calls, mempool, notified, DB, nextTx,
          built, issued, baIn, baOut, faIn, faOut, conv>>

NoArgs == [none |-> TRUE]
NoFrame == [fnArgs |-> <<>>, byteArgs |-> NilBytes, tx |-> NoTx, snap |-> <<>>, key |-> "none"]
NoResp == [TxID |-> 0]
NoResult == [bytes |-> NilBytes, err |-> NoErr, marshal |-> FALSE, cb58 |-> FALSE, done |-> FALSE]

InitMain ==
    /\ pc = [r \in Req |-> "idle"]
    /\ kind = [r \in Req |-> "none"]
    /\ args = [r \in Req |-> NoArgs]
    /\ frame = [r \in Req |-> NoFrame]
    /\ err = [r \in Req |-> NoErr]
    /\ resp = [r \in Req |-> NoResp]
    /\ calls = [r \in Req |-> <<>>]
    /\ mempool = <<>>
    /\ notified = 0
    /\ DB = <<>>
    /\ nextTx = 1
    /\ built = {}
    /\ issued = {}

NoArg == [Type |-> <<>>, Value |-> NilValue]

\* The requests of the handler runs carry no float outside its target range,
\* so the build's choice for those does not show there.
InitFnArg == faIn = NoArg /\ faOut = <<>> /\ conv = "wrap"

Init == InitMain /\ baIn = NilValue /\ baOut = NoResult /\ InitFnArg

\* No other request is being served.
Sequential(r) == \A q \in Req \ {r} : pc[q] = "idle"

\* Enter with the early returns missing: the handler goes on to the append
\* whether or not a step before it failed.
Enter_AlwaysAppend(r, k, a, run) ==
    /\ kind' = [kind EXCEPT ![r] = k]
    /\ args' = [args EXCEPT ![r] = a]
    /\ err' = [err EXCEPT ![r] = run.err]
    /\ calls' = [calls EXCEPT ![r] = run.calls]
    /\ frame' = [frame EXCEPT ![r] = [fnArgs |-> run.fnArgs, byteArgs |-> run.byteArgs,
                                       tx |-> run.tx, snap |-> <<>>,
                                       key |-> run.key]]
    /\ pc' = [pc EXCEPT ![r] = "append"]
    /\ nextTx' = IF run.tx # NoTx THEN nextTx + 1 ELSE nextTx
    /\ built' = IF run.tx # NoTx THEN built \cup {run.tx} ELSE built
    /\ UNCHANGED <<resp, mempool, notified, DB, issued, pureVars>>

\* What a handler leaves behind when it has run up to the build call.
Enter(r, k, a, run) ==
    /\ kind' = [kind EXCEPT ![r] = k]
    /\ args' = [args EXCEPT ![r] = a]
    /\ err' = [err EXCEPT ![r] = run.err]
    /\ calls' = [calls EXCEPT ![r] = run.calls]
    /\ frame' = [frame EXCEPT ![r] = [fnArgs |-> run.fnArgs, byteArgs |-> run.byteArgs,
                                       tx |-> run.tx, snap |-> <<>>,
                                       key |-> run.key]]
    /\ pc' = [pc EXCEPT ![r] = IF run.err = NoErr THEN "append" ELSE "returned"]
    /\ nextTx' = IF run.tx # NoTx THEN nextTx + 1 ELSE nextTx
    /\ built' = IF run.tx # NoTx THEN built \cup {run.tx} ELSE built
    /\ UNCHANGED <<resp, mempool, notified, DB, issued, pureVars>>

\* Service.Invoke, from its entry to the build call.
Invoke(r, dom) ==
    /\ pc[r] = "idle"
    /\ nextTx <= MaxTx
    /\ \E a \in dom, key \in KeyOutcomes, build \in BuildOutcomes :
          Enter(r, "Invoke", a, InvokeRun(a, key, build, [id |-> nextTx]))

\* Service.CreateContract, from its entry to the build call.
CreateContract(r, dom) ==
    /\ pc[r] = "idle"
    /\ nextTx <= MaxTx
    /\ \E a \in dom, key \in KeyOutcomes, build \in BuildOutcomes :
          Enter(r, "CreateContract", a, CreateContractRun(a, key, build, [id |-> nextTx]))

\* AppendRead with the notification sent before the append instead of after it.
AppendRead_NotifyFirst(r) ==
    /\ pc[r] = "append"
    /\ notified' = notified + 1
    /\ calls' = [calls EXCEPT ![r] = Append(@, "NotifyBlockReady")]
    /\ frame' = [frame EXCEPT ![r].snap = mempool]
    /\ pc' = [pc EXCEPT ![r] = "store"]
    /\ UNCHANGED <<kind, args, err, resp, mempool, DB, nextTx, built, issued, pureVars>>

\* s.vm.mempool = append(s.vm.mempool, tx), first half: the slice is read.
AppendRead(r) ==
    /\ pc[r] = "append"
    /\ frame' = [frame EXCEPT ![r].snap = mempool]
    /\ pc' = [pc EXCEPT ![r] = "store"]
    /\ UNCHANGED <<kind, args, err, resp, calls, sharedVars, pureVars>>

\* AppendWrite putting the transaction at the head of the slice.
AppendWrite_Prepend(r) ==
    /\ pc[r] = "store"
    /\ mempool' = <<frame[r].tx>> \o frame[r].snap
    /\ calls' = [calls EXCEPT ![r] = Append(@, "append")]
    /\ pc' = [pc EXCEPT ![r] = "notify"]
    /\ UNCHANGED <<kind, args, frame, err, resp, notified, DB, nextTx, built, issued, pureVars>>

\* ... second half: the slice read, one element longer, is stored back.
AppendWrite(r) ==
    /\ pc[r] = "store"
    /\ mempool' = Append(frame[r].snap, frame[r].tx)
    /\ calls' = [calls EXCEPT ![r] = Append(@, "append")]
    /\ pc' = [pc EXCEPT ![r] = "notify"]
    /\ UNCHANGED <<kind, args, frame, err, resp, notified, DB, nextTx, built, issued, pureVars>>

\* s.vm.NotifyBlockReady()
Notify(r) ==
    /\ pc[r] = "notify"
    /\ notified' = notified + 1
    /\ calls' = [calls EXCEPT ![r] = Append(@, "NotifyBlockReady")]
    /\ pc' = [pc EXCEPT ![r] = "respond"]
    /\ UNCHANGED <<kind, args, frame, err, resp, mempool, DB, nextTx, built, issued, pureVars>>

\* response.TxID = tx.ID() (Invoke), *response = tx.ID() (CreateContract); return nil
Respond(r) ==
    /\ pc[r] = "respond"
    /\ resp' = [resp EXCEPT ![r] = [TxID |-> frame[r].tx.id]]
    /\ issued' = issued \cup {frame[r].tx.id}
    /\ pc' = [pc EXCEPT ![r] = "returned"]
    /\ UNCHANGED <<kind, args, frame, err, calls, mempool, notified, DB, nextTx, built, pureVars>>

\* GetTx without the check of getTx's error.
GetTx_ErrIgnored(r) ==
    /\ pc[r] = "idle"
    /\ \E a \in GetTxArgsDom :
          LET got == getTx(DB, a.ID)
          IN  /\ kind' = [kind EXCEPT ![r] = "GetTx"]
              /\ args' = [args EXCEPT ![r] = a]
              /\ calls' = [calls EXCEPT ![r] = <<"getTx">>]
              /\ err' = [err EXCEPT ![r] = NoErr]
              /\ resp' = [resp EXCEPT ![r] = [Tx |-> got.tx]]
    /\ pc' = [pc EXCEPT ![r] = "returned"]
    /\ UNCHANGED <<frame, sharedVars, pureVars>>

\* GetTx telling the scheduler of every transaction it finds.
GetTx_NotifyOnHit(r) ==
    /\ pc[r] = "idle"
    /\ \E a \in GetTxArgsDom :
          LET got == getTx(DB, a.ID)
          IN  /\ kind' = [kind EXCEPT ![r] = "GetTx"]
              /\ args' = [args EXCEPT ![r] = a]
              /\ calls' = [calls EXCEPT ![r] = <<"getTx">>]
              /\ err' = [err EXCEPT ![r] =
                            IF got.err # NoErr THEN <<"couldn't find tx with ID %s">> ELSE NoErr]
              /\ resp' = [resp EXCEPT ![r] =
                            IF got.err # NoErr THEN [Tx |-> NoReceipt] ELSE [Tx |-> got.tx]]
              /\ notified' = IF got.err # NoErr THEN notified ELSE notified + 1
    /\ pc' = [pc EXCEPT ![r] = "returned"]
    /\ UNCHANGED <<frame, mempool, DB, nextTx, built, issued, pureVars>>

\* Service.GetTx
GetTx(r) ==
    /\ pc[r] = "idle"
    /\ \E a \in GetTxArgsDom :
          LET got == getTx(DB, a.ID)
          IN  /\ kind' = [kind EXCEPT ![r] = "GetTx"]
              /\ args' = [args EXCEPT ![r] = a]
              /\ calls' = [calls EXCEPT ![r] = <<"getTx">>]
              /\ err' = [err EXCEPT ![r] =
                            IF got.err # NoErr THEN <<"couldn't find tx with ID %s">> ELSE NoErr]
              /\ resp' = [resp EXCEPT ![r] =
                            IF got.err # NoErr THEN [Tx |-> NoReceipt] ELSE [Tx |-> got.tx]]
    /\ pc' = [pc EXCEPT ![r] = "returned"]
    /\ UNCHANGED <<frame, sharedVars, pureVars>>

\* Service.NewKey
NewKey(r) ==
    /\ pc[r] = "idle"
    /\ \E out \in NewKeyOutcomes, bytes \in KeyBytes \ {<<>>} :
          /\ err' = [err EXCEPT ![r] =
                        IF out = "error" THEN <<"couldn't create new private key: %v", "key error">>
                        ELSE NoErr]
          /\ resp' = [resp EXCEPT ![r] =
                        IF out = "error" THEN [Key |-> <<>>] ELSE [Key |-> bytes]]
    /\ kind' = [kind EXCEPT ![r] = "NewKey"]
    /\ args' = [args EXCEPT ![r] = NoArgs]
    /\ calls' = [calls EXCEPT ![r] = <<"NewPrivateKey">>]
    /\ pc' = [pc EXCEPT ![r] = "returned"]
    /\ UNCHANGED <<frame, sharedVars, pureVars>>

\* The handler has returned and its thread takes the next request.
Reset(r) ==
    /\ pc[r] = "returned"
    /\ pc' = [pc EXCEPT ![r] = "idle"]
    /\ kind' = [kind EXCEPT ![r] = "none"]
    /\ args' = [args EXCEPT ![r] = NoArgs]
    /\ frame' = [frame EXCEPT ![r] = NoFrame]
    /\ err' = [err EXCEPT ![r] = NoErr]
    /\ resp' = [resp EXCEPT ![r] = NoResp]
    /\ calls' = [calls EXCEPT ![r] = <<>>]
    /\ UNCHANGED <<sharedVars, pureVars>>

\* The store's owner persists a transaction of the mempool under its identifier.
StorePut ==
    /\ \E i \in DOMAIN mempool :
          /\ mempool[i].id \notin DOMAIN DB
          /\ DB' = [k \in DOMAIN DB \cup {mempool[i].id} |->
                        IF k = mempool[i].id THEN Receipt(mempool[i]) ELSE DB[k]]
    /\ UNCHANGED <<threadVars, mempool, notified, nextTx, built, issued, pureVars>>

\* Requests served one after the other.
Next ==
    \/ \E r \in Req : Sequential(r) /\ Invoke(r, InvokeArgsDom)
    \/ \E r \in Req : Sequential(r) /\ CreateContract(r, CreateContractArgsDom)
    \/ \E r \in Req : Sequential(r) /\ GetTx(r)
    \/ \E r \in Req : Sequential(r) /\ NewKey(r)
    \/ \E r \in Req : AppendRead(r)
    \/ \E r \in Req : AppendWrite(r)
    \/ \E r \in Req : Notify(r)
    \/ \E r \in Req : Respond(r)
    \/ \E r \in Req : Reset(r)
    \/ StorePut

Spec == Init /\ [][Next]_vars

\* Each admitting request on its own thread, their steps interleaved in any
\* order. GetTx and NewKey touch neither the mempool nor the notification.
NextConc ==
    \/ \E r \in Req : Invoke(r, ConcInvokeArgsDom)
    \/ \E r \in Req : CreateContract(r, ConcCreateContractArgsDom)
    \/ \E r \in Req : AppendRead(r)
    \/ \E r \in Req : AppendWrite(r)
    \/ \E r \in Req : Notify(r)
    \/ \E r \in Req : Respond(r)
    \/ \E r \in Req : Reset(r)

SpecConc == Init /\ [][NextConc]_vars

\* getByteArgs applied to one value.
InitByteArgs == InitMain /\ baIn \in ByteArgsDom /\ baOut = NoResult /\ InitFnArg

ResolveByteArgs ==
    /\ ~baOut.done
    /\ baOut' = getByteArgs(baIn) @@ [done |-> TRUE]
    /\ UNCHANGED <<threadVars, sharedVars, baIn, faIn, faOut, conv>>

NextByteArgs == ResolveByteArgs

SpecByteArgs == InitByteArgs /\ [][NextByteArgs]_vars

\* toFnArg applied to one argument, FnArgCalls times over.
FnArgTags ==
    { TagInt32, TagInt64,
      <<"I", "N", "T", "3", "2">>, <<"I", "n", "t", "6", "4">>, <<"i", "n", "T", "3", "2">>,
      <<"i", "n", "t">>, <<"i", "n", "t", "3", "2", " ">>, <<"b", "o", "o", "l">>, <<>> }

FnArgInts32 == {-Pow2(Bits32 - 1), -1, 0, Pow2(Bits32 - 1) - 1}
FnArgInts64 ==
    FnArgInts32 \cup
    { -Pow2(Bits64 - 1), -Pow2(Bits32 - 1) - 1, Pow2(Bits32 - 1), Pow2(Bits32),
      Pow2(Bits32) + 1, Pow2(Bits64 - 1) - 1 }
FnArgFloats ==
    {Float(neg, whole, half) :
        neg \in BOOLEAN, whole \in {0, 1, Pow2(Bits32 - 1), Pow2(Bits64 - 1)}, half \in BOOLEAN}

FnArgValues ==
    {[t |-> "int32", v |-> n] : n \in FnArgInts32}
    \cup {[t |-> "int64", v |-> n] : n \in FnArgInts64}
    \cup {[t |-> "float32", v |-> f] : f \in FnArgFloats}
    \cup {[t |-> "float64", v |-> f] : f \in FnArgFloats}
    \cup { NilValue, [t |-> "bool", v |-> TRUE], [t |-> "string", v |-> <<"1">>],
           [t |-> "array", v |-> <<[t |-> "float64", v |-> Float(FALSE, 1, FALSE)]>>] }

FnArgDom == [Type : FnArgTags, Value : FnArgValues]

InitFnArgOnly ==
    /\ InitMain /\ baIn = NilValue /\ baOut = NoResult
    /\ faIn \in FnArgDom /\ faOut = <<>> /\ conv \in ConvOutcomes

Coerce ==
    /\ Len(faOut) < FnArgCalls
    /\ faOut' = Append(faOut, toFnArg(faIn))
    /\ UNCHANGED <<threadVars, sharedVars, baIn, baOut, faIn, conv>>

NextFnArg == Coerce

SpecFnArg == InitFnArgOnly /\ [][NextFnArg]_vars

\* =============================================================== claims
Has(seq, x) == \E i \in DOMAIN seq : seq[i] = x
IsPrefix(s, t) == Len(s) <= Len(t) /\ SubSeq(t, 1, Len(s)) = s
Admits(r) == kind[r] \in {"Invoke", "CreateContract"}
Quiet == \A r \in Req : pc[r] \in {"idle", "returned"}
AdmittedIDs == {mempool[i].id : i \in DOMAIN mempool}
ValidationFailed == "arguments failed validation: %v"

\* C1: once every request has returned, the mempool holds each transaction a
\* build call returned exactly once: as many entries as requests that passed
\* the build, none lost, none duplicated, whatever the interleaving.
C1_EveryBuiltTxAdmittedOnce ==
    Quiet =>
        /\ Len(mempool) = Cardinality(built)
        /\ \A t \in built : Cardinality({i \in DOMAIN mempool : mempool[i] = t}) = 1

\* C2: no two requests are at once between reading the mempool slice and
\* storing the appended slice back.
C2_AppendMutuallyExclusive ==
    \A r, q \in Req : (r # q) => ~(pc[r] = "store" /\ pc[q] = "store")

\* C3: a request that returns an error has neither appended nor notified, the
\* step on which it fails changes neither the mempool nor the notification
\* count, and every mempool entry is a transaction a build call returned.
C3_FailedRequestAdmitsNothing ==
    /\ [](\A r \in Req : (Admits(r) /\ err[r] # NoErr) =>
            /\ pc[r] = "returned"
            /\ ~Has(calls[r], "append")
            /\ ~Has(calls[r], "NotifyBlockReady"))
    /\ [](\A i \in DOMAIN mempool : mempool[i] \in built)
    /\ [][\A r \in Req : (err[r] = NoErr /\ err'[r] # NoErr) =>
            (mempool' = mempool /\ notified' = notified)]_vars

C3_Witness ==
    \E r \in Req :
        /\ kind[r] = "Invoke" /\ pc[r] = "returned"
        /\ err[r] = <<"couldn't create tx: %s", "build error">>
        /\ Len(mempool) = 1

C5_NonceBoundary ==
    \A r \in Req : Admits(r) =>
        /\ (args[r].SenderNonce = 0) =>
              /\ pc[r] = "returned" /\ err[r] # NoErr
              /\ frame[r].tx = NoTx
              /\ ~Has(calls[r], "newInvokeTx") /\ ~Has(calls[r], "newCreateContractTx")
              /\ ~Has(calls[r], "append")
        /\ (kind[r] = "Invoke" /\ args[r].SenderNonce = 1 /\ args[r].SenderKey # <<>>
                /\ args[r].ContractID # idsEmpty /\ args[r].Function # "") =>
              (err[r] = NoErr \/ err[r][1] # ValidationFailed)
        /\ (kind[r] = "CreateContract" /\ args[r].SenderNonce = 1 /\ args[r].SenderKey # <<>>
                /\ args[r].Contract # <<>>) =>
              (err[r] = NoErr \/ Has(calls[r], "ToPrivateKey"))

C5_Witness ==
    \E r \in Req :
        /\ kind[r] = "Invoke" /\ args[r].SenderNonce = 0 /\ args[r].SenderKey # <<>>
        /\ args[r].ContractID # idsEmpty /\ args[r].Function # ""
        /\ err[r] = <<ValidationFailed, "'senderNonce' must be at least 1">>

\* C6 as stated: every Invoke request with the empty contractID fails with the
\* contract-ID message, and the key factory is not called.
C6_EmptyContractIDMessage ==
    \A r \in Req : (kind[r] = "Invoke" /\ args[r].ContractID = idsEmpty) =>
        /\ err[r] = <<ValidationFailed, "contractID not specified">>
        /\ ~Has(calls[r], "ToPrivateKey")

\* C6 amended: every Invoke request with the empty contractID fails validation
\* and the key factory is not called; the message is the contract-ID one when
\* senderKey is present and senderNonce is not 0, the checks that come first.
C6_EmptyContractIDRejected ==
    \A r \in Req : (kind[r] = "Invoke" /\ args[r].ContractID = idsEmpty) =>
        /\ pc[r] = "returned"
        /\ Len(err[r]) = 2 /\ err[r][1] = ValidationFailed
        /\ ~Has(calls[r], "ToPrivateKey")
        /\ (args[r].SenderKey # <<>> /\ args[r].SenderNonce # 0) =>
              err[r][2] = "contractID not specified"

C6_Witness ==
    \E r \in Req :
        /\ kind[r] = "Invoke" /\ args[r].ContractID = idsEmpty
        /\ args[r].SenderKey # <<>> /\ args[r].SenderNonce # 0
        /\ pc[r] = "returned"
        /\ err[r] = <<ValidationFailed, "contractID not specified">>

\* C7: a CreateContract request with no contract bytes fails validation without
\* a call to the key factory or the builder, and leaves the mempool as it was.
C7_EmptyContractRejected ==
    /\ [](\A r \in Req : (kind[r] = "CreateContract" /\ args[r].Contract = <<>>) =>
            /\ pc[r] = "returned"
            /\ err[r] \in {<<"argument 'senderKey' not given">>, <<"argument 'contract' not given">>}
            /\ ~Has(calls[r], "ToPrivateKey")
            /\ ~Has(calls[r], "newCreateContractTx")
            /\ frame[r].tx = NoTx)
    /\ [][\A r \in Req : (kind[r] = "none" /\ kind'[r] = "CreateContract"
                            /\ args'[r].Contract = <<>>) => mempool' = mempool]_vars

C7_Witness ==
    \E r \in Req :
        /\ kind[r] = "CreateContract" /\ args[r].Contract = <<>>
        /\ args[r].SenderKey # <<>> /\ args[r].SenderNonce # 0
        /\ err[r] = <<"argument 'contract' not given">>
        /\ Len(mempool) = 1

\* C8 as stated: GetTx fails for an identifier never admitted, and succeeds,
\* with a receipt bearing that identifier, for every identifier a successful
\* Invoke or CreateContract returned before.
C8_IssuedIDFound ==
    \A r \in Req : (kind[r] = "GetTx" /\ pc[r] = "returned") =>
        /\ (args[r].ID \notin AdmittedIDs) => err[r] # NoErr
        /\ (args[r].ID \in issued) =>
              (err[r] = NoErr /\ resp[r].Tx.id = args[r].ID)

\* C8 amended: GetTx fails with the not-found error for every identifier the
\* store holds no receipt under, leaving the response's receipt unset; that
\* includes an identifier a successful Invoke or CreateContract returned, until
\* the transaction is persisted. For an identifier the store holds, GetTx
\* returns the receipt stored under it, which bears that identifier.
C8_StoredIDFound ==
    [][\A r \in Req : (kind[r] = "none" /\ kind'[r] = "GetTx") =>
          /\ (args'[r].ID \notin DOMAIN DB) =>
                (err'[r] = <<"couldn't find tx with ID %s">> /\ resp'[r].Tx = NoReceipt)
          /\ (args'[r].ID \in DOMAIN DB) =>
                /\ err'[r] = NoErr
                /\ resp'[r].Tx = DB[args'[r].ID]
                /\ resp'[r].Tx.id = args'[r].ID]_vars

C8_Witness ==
    \E r \in Req :
        /\ kind[r] = "GetTx" /\ pc[r] = "returned"
        /\ args[r].ID \in issued /\ args[r].ID \in DOMAIN DB
        /\ err[r] = NoErr /\ resp[r].Tx.id = args[r].ID

\* C9: for a JSON array or object the result is its JSON serialization or an
\* error and the CB58 codec is not invoked; the codec is invoked for every
\* string, one that is JSON text included, and for nothing but strings.
C9_JsonBeforeCB58 ==
    baOut.done =>
        /\ (baIn.t \in {"array", "object"}) =>
              /\ ~baOut.cb58 /\ baOut.marshal
              /\ (baOut.err = NoErr) =>
                    /\ baOut.bytes = Bytes(Marshal(baIn).out)
                    /\ Head(baOut.bytes.b) = (IF baIn.t = "array" THEN "[" ELSE "{")
        /\ baOut.cb58 <=> (baIn.t = "string")
        /\ (baIn.t = "string") => ~baOut.marshal

C9_Witness ==
    /\ baOut.done
    /\ baIn = [t |-> "array", v |-> <<[t |-> "string", v |-> <<"1">>], [t |-> "bool", v |-> TRUE]>>]
    /\ baOut.bytes = Bytes(<<"[", "\"", "1", "\"", ",", "t", "r", "u", "e", "]">>)
    /\ ~baOut.cb58

\* C10: every input has exactly one outcome, bytes or an error: an absent value
\* gives the empty sequence and no error; a value that is no array, object or
\* string, and a string the codec rejects, give an error and no bytes.
C10_OneOutcome ==
    baOut.done =>
        /\ (baOut.err = NoErr) <=> ~baOut.bytes.nil
        /\ (baIn.t = "nil") => (baOut.err = NoErr /\ baOut.bytes = Bytes(<<>>))
        /\ (baIn.t \notin {"nil", "array", "object", "string"}) =>
              (baOut.err # NoErr /\ baOut.bytes = NilBytes)
        /\ (baIn.t = "string" /\ CB58FromString(baIn.v).err # NoErr) =>
              (baOut.err # NoErr /\ baOut.bytes = NilBytes)

C10_Witness ==
    /\ baOut.done
    /\ baIn.t = "float64"
    /\ baOut.err = errBagByteArgs /\ baOut.bytes = NilBytes

\* C11: toFnArg returns no error exactly when the tag is int32 or int64 in any
\* letter case and the value is an int32, int64, float32 or float64; the value
\* returned then has the tagged type and lies in its range; in every other
\* case it returns an error and no value; and each call on the same argument
\* returns what the first returned.
EqualFold(s, t) == ToLower(s) = ToLower(t)
InWidth(n, w) == -Pow2(w - 1) <= n /\ n < Pow2(w - 1)

C11_CoercionTotalOnNumbers ==
    \A i \in DOMAIN faOut :
        LET out == faOut[i]
            is32 == EqualFold(faIn.Type, TagInt32)
            is64 == EqualFold(faIn.Type, TagInt64)
            numeric == faIn.Value.t \in {"int32", "int64", "float32", "float64"}
        IN  /\ ((is32 \/ is64) /\ numeric) =>
                  /\ out.err = NoErr
                  /\ out.val.t = (IF is32 THEN "int32" ELSE "int64")
                  /\ InWidth(out.val.v, IF is32 THEN Bits32 ELSE Bits64)
            /\ ~((is32 \/ is64) /\ numeric) => (out.err # NoErr /\ out.val = NilValue)
            /\ out = faOut[1]

C11_Witness ==
    /\ Len(faOut) = FnArgCalls
    /\ faIn = [Type |-> <<"I", "N", "T", "3", "2">>,
               Value |-> [t |-> "float64", v |-> Float(FALSE, Pow2(Bits32 - 1), TRUE)]]
    /\ conv = "saturate"
    /\ faOut[FnArgCalls] = [val |-> [t |-> "int32", v |-> Pow2(Bits32 - 1) - 1], err |-> NoErr]

\* C19: with the tag int32 and an int64 value toFnArg returns no error and an
\* int32 congruent to the value modulo 2^32, equal to it when it lies in the
\* int32 range; with the tag int64 and an int32 value it returns that value as
\* an int64.
C19_NarrowWrapsWidenKeeps ==
    \A i \in DOMAIN faOut :
        LET out == faOut[i]
            in == faIn.Value
        IN  /\ (EqualFold(faIn.Type, TagInt32) /\ in.t = "int64") =>
                  /\ out.err = NoErr
                  /\ out.val.t = "int32"
                  /\ InWidth(out.val.v, Bits32)
                  /\ (out.val.v - in.v) % Pow2(Bits32) = 0
                  /\ InWidth(in.v, Bits32) => (out.val.v = in.v)
            /\ (EqualFold(faIn.Type, TagInt64) /\ in.t = "int32") =>
                  (out.err = NoErr /\ out.val = [t |-> "int64", v |-> in.v])

C19_Witness ==
    /\ faIn = [Type |-> TagInt32, Value |-> [t |-> "int64", v |-> Pow2(Bits32 - 1)]]
    /\ Len(faOut) >= 1
    /\ faOut[1] = [val |-> [t |-> "int32", v |-> -Pow2(Bits32 - 1)], err |-> NoErr]

\* C12: in every interleaving, a request's notification comes after its own
\* append and before its response identifier is set; a request that returned
\* without error has notified; and every step that notifies is taken by a
\* request that has already appended the transaction the builder gave it.
Before(seq, x, y) == \E i, j \in DOMAIN seq : i < j /\ seq[i] = x /\ seq[j] = y

C12_NotifyAfterAppend ==
    /\ [](\A r \in Req : Admits(r) =>
            /\ Has(calls[r], "NotifyBlockReady") => Before(calls[r], "append", "NotifyBlockReady")
            /\ (resp[r] # NoResp) => Has(calls[r], "NotifyBlockReady")
            /\ (pc[r] = "returned" /\ err[r] = NoErr) =>
                  (Has(calls[r], "NotifyBlockReady") /\ resp[r] = [TxID |-> frame[r].tx.id]))
    /\ [][(notified' # notified) =>
            /\ notified' = notified + 1
            /\ \E r \in Req :
                  /\ calls'[r] = Append(calls[r], "NotifyBlockReady")
                  /\ Has(calls[r], "append")
                  /\ frame[r].tx \in built
                  /\ resp[r] = NoResp]_vars

C12_Witness ==
    \E r, q \in Req :
        /\ kind[r] = "CreateContract" /\ pc[r] = "returned" /\ err[r] = NoErr
        /\ calls[r] = <<"ToPrivateKey", "newCreateContractTx", "append", "NotifyBlockReady">>
        /\ resp[r].TxID = frame[r].tx.id
        /\ kind[q] = "Invoke" /\ pc[q] = "store"
        /\ notified = 1

\* C13: the step a GetTx request takes, found or not found, leaves the mempool,
\* the notification count and the store as they were, and the only call a
\* GetTx request makes is the lookup.
C13_GetTxReadOnly ==
    /\ [][\A r \in Req : (kind'[r] = "GetTx" /\ kind[r] # "GetTx") =>
            /\ mempool' = mempool /\ notified' = notified /\ DB' = DB
            /\ pc'[r] = "returned"]_vars
    /\ [](\A r \in Req : (kind[r] = "GetTx") => (calls[r] = <<"getTx">> /\ pc[r] = "returned"))

C13_Witness ==
    \E r \in Req :
        /\ kind[r] = "GetTx" /\ pc[r] = "returned" /\ err[r] = NoErr
        /\ resp[r] = [Tx |-> Receipt([id |-> args[r].ID])]
        /\ Len(mempool) = 2 /\ notified = 2

\* C14 as stated: the builder is called only in a request whose fields passed
\* validate, whose arguments all coerced, whose byteArgs resolved and whose key
\* resolved; and a request in which an argument was coerced, the key factory
\* asked or the builder called is one whose fields passed validate and whose
\* byteArgs resolved.
CoercedAll(a) == \A i \in DOMAIN a.Args : toFnArg(a.Args[i]).err = NoErr
ByteArgsResolved(a) == getByteArgs(a.ByteArgs).err = NoErr

C14_ValidationBeforeAllWork ==
    \A r \in Req : (kind[r] = "Invoke") =>
        /\ Has(calls[r], "newInvokeTx") =>
              /\ validate(args[r]) = NoErr /\ CoercedAll(args[r])
              /\ ByteArgsResolved(args[r]) /\ frame[r].key = "secp256k1r"
        /\ (Has(calls[r], "toFnArg") \/ Has(calls[r], "ToPrivateKey") \/ Has(calls[r], "newInvokeTx")) =>
              (validate(args[r]) = NoErr /\ ByteArgsResolved(args[r]))

\* C14, amended: the builder is called only in a request whose fields passed
\* validate, whose arguments all coerced, whose byteArgs resolved and whose key
\* resolved; coercion, byteArgs resolution, key resolution and build happen only
\* in a request whose four fields passed validate; byteArgs is resolved only
\* once every argument has coerced, and the key factory is asked only once
\* byteArgs has resolved. The calls follow that one order.
InvokeOrder(n) ==
    <<"validate">> \o [i \in 1..n |-> "toFnArg"]
        \o <<"getByteArgs", "ToPrivateKey", "newInvokeTx", "append", "NotifyBlockReady">>

C14_BuildAfterAllStages ==
    \A r \in Req : (kind[r] = "Invoke") =>
        /\ Has(calls[r], "newInvokeTx") =>
              /\ validate(args[r]) = NoErr /\ CoercedAll(args[r])
              /\ ByteArgsResolved(args[r]) /\ frame[r].key = "secp256k1r"
        /\ (Len(calls[r]) > 1) => (validate(args[r]) = NoErr)
        /\ Has(calls[r], "getByteArgs") => CoercedAll(args[r])
        /\ Has(calls[r], "ToPrivateKey") => (CoercedAll(args[r]) /\ ByteArgsResolved(args[r]))
        /\ IsPrefix(calls[r], InvokeOrder(Len(args[r].Args)))

C14_Witness ==
    \E r \in Req :
        /\ kind[r] = "Invoke" /\ pc[r] = "returned" /\ err[r] = NoErr
        /\ Len(args[r].Args) = MaxArgs
        /\ args[r].ByteArgs.t = "array"
        /\ calls[r] = InvokeOrder(MaxArgs)

\* C15: an Invoke or CreateContract request whose key factory call returned,
\* without error, a key of another scheme has returned an error, has called no
\* builder, holds no transaction, has appended and notified nothing and has no
\* response identifier; the step on which it gets that key changes neither the
\* mempool, the notification count nor the set of built transactions.
C15_ForeignKeyRejected ==
    /\ [](\A r \in Req : (Admits(r) /\ frame[r].key = "other") =>
            /\ pc[r] = "returned" /\ err[r] # NoErr
            /\ ~Has(calls[r], "newInvokeTx") /\ ~Has(calls[r], "newCreateContractTx")
            /\ ~Has(calls[r], "append") /\ ~Has(calls[r], "NotifyBlockReady")
            /\ frame[r].tx = NoTx /\ resp[r] = NoResp)
    /\ [][\A r \in Req : (frame'[r].key = "other" /\ frame[r].key # "other") =>
            (mempool' = mempool /\ notified' = notified /\ built' = built)]_vars

C15_Witness ==
    \E r \in Req :
        /\ kind[r] = "CreateContract" /\ frame[r].key = "other"
        /\ calls[r] = <<"ToPrivateKey">>
        /\ err[r] = <<"couldn't parse 'senderKey' to a SECP256K1R private key: %v", "<nil>">>
        /\ Len(mempool) = 1

\* C16: when Invoke calls the builder, fnArgs is as long as the request's args
\* and its i-th element is what toFnArg returns for the i-th argument alone;
\* when some argument does not coerce (and the fields passed validate), toFnArg
\* has been called on the arguments up to the first such one and no further,
\* the error is the parse error wrapping that argument's, and the builder is
\* not called.
FirstBad(a) == Min({i \in DOMAIN a.Args : toFnArg(a.Args[i]).err # NoErr})
Count(seq, x) == Cardinality({i \in DOMAIN seq : seq[i] = x})

C16_ArgsCoercedInOrder ==
    \A r \in Req : (kind[r] = "Invoke") =>
        /\ Has(calls[r], "newInvokeTx") =>
              /\ Len(frame[r].fnArgs) = Len(args[r].Args)
              /\ \A i \in DOMAIN args[r].Args :
                    /\ toFnArg(args[r].Args[i]).err = NoErr
                    /\ frame[r].fnArgs[i] = toFnArg(args[r].Args[i]).val
              /\ Count(calls[r], "toFnArg") = Len(args[r].Args)
        /\ (validate(args[r]) = NoErr /\ ~CoercedAll(args[r])) =>
              /\ pc[r] = "returned"
              /\ err[r] = <<"couldn't parse arg '%+v': %s">>
                              \o toFnArg(args[r].Args[FirstBad(args[r])]).err
              /\ calls[r] = <<"validate">> \o [i \in 1..FirstBad(args[r]) |-> "toFnArg"]
              /\ frame[r].tx = NoTx

C16_Witness ==
    \E r \in Req :
        /\ kind[r] = "Invoke" /\ Has(calls[r], "newInvokeTx")
        /\ Len(args[r].Args) = 2
        /\ frame[r].fnArgs = << [t |-> "int64", v |-> -1],
                                [t |-> "int32", v |-> 1 - Pow2(Bits32 - 1)] >>

\* C17: in every interleaving, a request that returned without error holds in
\* its response the identifier of the transaction it appended, and the mempool
\* has an entry with that identifier; a request that returned an error has its
\* response identifier unset.
C17_ReturnedIDInMempool ==
    \A r \in Req : (Admits(r) /\ pc[r] = "returned") =>
        /\ (err[r] = NoErr) =>
              /\ resp[r] = [TxID |-> frame[r].tx.id]
              /\ frame[r].tx \in built
              /\ resp[r].TxID \in AdmittedIDs
        /\ (err[r] # NoErr) => (resp[r] = NoResp)

\* C18: the error of an Invoke request is that of the earliest stage that
\* fails, in the order senderKey, senderNonce, contractID, function, argument
\* coercion, byteArgs, key, build, and the calls made are those of the stages up
\* to that one and no other.
CallsUpTo(a, stage) ==
    LET n == Len(a.Args)
        all == [i \in 1..n |-> "toFnArg"]
    IN  CASE stage = "validate" -> <<"validate">>
          [] stage = "toFnArg" -> <<"validate">> \o [i \in 1..FirstBad(a) |-> "toFnArg"]
          [] stage = "getByteArgs" -> <<"validate">> \o all \o <<"getByteArgs">>
          [] stage = "ToPrivateKey" -> <<"validate">> \o all \o <<"getByteArgs", "ToPrivateKey">>
          [] OTHER -> <<"validate">> \o all \o <<"getByteArgs", "ToPrivateKey", "newInvokeTx">>

C18_EarliestStageDecides ==
    \A r \in Req : (kind[r] = "Invoke" /\ pc[r] = "returned") =>
        LET a == args[r]
        IN  IF a.SenderKey = <<>> THEN
                /\ err[r] = <<ValidationFailed, "argument 'senderKey' not provided">>
                /\ calls[r] = CallsUpTo(a, "validate")
            ELSE IF a.SenderNonce = 0 THEN
                /\ err[r] = <<ValidationFailed, "'senderNonce' must be at least 1">>
                /\ calls[r] = CallsUpTo(a, "validate")
            ELSE IF a.ContractID = idsEmpty THEN
                /\ err[r] = <<ValidationFailed, "contractID not specified">>
                /\ calls[r] = CallsUpTo(a, "validate")
            ELSE IF a.Function = "" THEN
                /\ err[r] = <<ValidationFailed, "function not specified">>
                /\ calls[r] = CallsUpTo(a, "validate")
            ELSE IF ~CoercedAll(a) THEN
                /\ err[r][1] = "couldn't parse arg '%+v': %s"
                /\ calls[r] = CallsUpTo(a, "toFnArg")
            ELSE IF ~ByteArgsResolved(a) THEN
                /\ err[r][1] = "couldn't parse 'byteArgs': %v"
                /\ calls[r] = CallsUpTo(a, "getByteArgs")
            ELSE IF frame[r].key # "secp256k1r" THEN
                /\ err[r][1] = "couldn't parse 'privateKey' to a SECP256K1R private key: %v"
                /\ calls[r] = CallsUpTo(a, "ToPrivateKey")
            ELSE IF err[r] # NoErr THEN
                /\ err[r][1] = "couldn't create tx: %s"
                /\ calls[r] = CallsUpTo(a, "newInvokeTx")
            ELSE IsPrefix(CallsUpTo(a, "newInvokeTx"), calls[r])

C18_Witness ==
    \E r \in Req :
        /\ kind[r] = "Invoke" /\ pc[r] = "returned"
        /\ args[r].SenderKey = <<>> /\ args[r].SenderNonce = 0
        /\ args[r].ContractID = idsEmpty /\ args[r].Function = ""
        /\ Len(args[r].Args) = 2 /\ ~CoercedAll(args[r]) /\ ~ByteArgsResolved(args[r])
        /\ err[r] = <<ValidationFailed, "argument 'senderKey' not provided">>
        /\ calls[r] = <<"validate">>
====
